---- MODULE Spec2Model ----
(***************************************************************************)
(* A model of src/recorder.js (the second, complete Recorder of that file, *)
(* lines 336-1430): the Proxy traps that record operations on stand-ins,   *)
(* the Recorder's log and its scheduled flush, the MessagePort transport   *)
(* and the replay engine acting on a concrete object graph.                *)
(***************************************************************************)
EXTENDS Integers, Sequences, FiniteSets, TLC

\* ------------------------------------------------------------ bounds
\* Trap invocations and raw record() calls in one behaviour.
MaxOps == 3
\* Distinct user function values that may be written or passed.
MaxFns == 1
\* Manual replay() calls in one behaviour.
MaxReplays == 2

\* ------------------------------------------------------------ values
\* Identifiers: 'globalThis', `obj_${n}`, `channel_${n}`, and null.
RootId == [k |-> "globalThis", n |-> 0]
NoId == [k |-> "none", n |-> 0]
ObjId(n) == [k |-> "obj", n |-> n]
ChannelId(n) == [k |-> "channel", n |-> n]

\* Values of the replay side: undefined/null, primitives, the boolean true,
\* heap objects, callables built from a channel marker, streams, and the
\* {error: message} entry of a result list.
Undef == [t |-> "undef", n |-> 0]
Prim(n) == [t |-> "prim", n |-> n]
True == [t |-> "bool", n |-> 1]
Obj(n) == [t |-> "obj", n |-> n]
Cb(c) == [t |-> "cb", n |-> c]
Stream(k) == [t |-> "stream", n |-> k]
ErrorEntry == [t |-> "error", n |-> 0]

\* JavaScript truthiness, as `x || context` reads it.
Truthy(v) == ~(v.t = "undef" \/ (v.t = "prim" /\ v.n = 0))

\* Values the caller hands to a trap: a literal, a stand-in (by its index in
\* proxies), one of the caller's functions, a ReadableStream.
Lit(n) == [t |-> "lit", n |-> n]
StandIn(k) == [t |-> "standin", n |-> k]
Fn(f) == [t |-> "fn", n |-> f]
StreamArg(k) == [t |-> "streamarg", n |-> k]
NoArg == [t |-> "noarg", n |-> 0]

\* Serialized argument/value positions of a record.
LitMarker(n) == [m |-> "lit", id |-> NoId, n |-> n]
RefMarker(id) == [m |-> "ref", id |-> id, n |-> 0]
ChannelMarker(id) == [m |-> "channel", id |-> id, n |-> 0]
TransferMarker == [m |-> "transfer", id |-> NoId, n |-> 0]
RawMarker(k) == [m |-> "raw", id |-> NoId, n |-> k]
NoMarker == [m |-> "none", id |-> NoId, n |-> 0]

\* Member names of the target graph, and those the caller writes.
Props == {"a", "f", "v"}
SetProps == {"v"}

\* The target graph: 1 the root (context), 2 the object root.a, 3 the
\* function root.f, which returns a new object, 4 the function root.a.f,
\* which throws null.  Each heap cell maps member names to values; root.v
\* does not exist and root.a.v is 0.
ContextObj == 1
AObj == 2
FObj == 3
GObj == 4
EmptyObject == [p \in Props |-> Undef]
InitialHeap ==
  << [a |-> Obj(AObj), f |-> Obj(FObj), v |-> Undef],
     [a |-> Undef, f |-> Obj(GObj), v |-> Prim(0)],
     EmptyObject,
     EmptyObject >>

\* Recorder options (constructor): manual replay only; automatic local
\* replay into replayContext; automatic flush through a MessagePort.
Configs ==
  { [port |-> FALSE, autoReplay |-> FALSE, replayContext |-> FALSE,
     onerror |-> FALSE],
    [port |-> FALSE, autoReplay |-> TRUE, replayContext |-> TRUE,
     onerror |-> FALSE],
    [port |-> TRUE, autoReplay |-> TRUE, replayContext |-> FALSE,
     onerror |-> FALSE] }

VARIABLES
  options,              \* the Recorder's port / autoReplay / replayContext
                        \* / onerror
  recordings,           \* this.recordings
  recordingEnabled,     \* this.recordingEnabled
  replayScheduled,      \* this.replayScheduled
  microtasks,           \* flush callbacks queued by queueMicrotask, not yet run
  counter,              \* counter.value of each root handler created
  proxies,              \* the stand-ins created so far and objectIds
  finalizationRegistry, \* the stand-ins registered with finalizationRegistry
  disposeCalled,        \* the stand-ins whose dispose function has run
  collected,            \* the stand-ins the garbage collector reclaimed
  handles,              \* objectId of every RecordedObjectHandle created
  disposals,            \* times each handle's Symbol.dispose method was called
  refLog,               \* every _updateRefCount call of the recording
                        \* Recorder: identifier, delta, count before and after
  functionChannels,     \* this.functionChannels: function -> channelInfo
  pendingTransferables, \* this.pendingTransferables
  objectRefCounts,      \* this.objectRefCounts of the recording Recorder
  net,                  \* messages posted on the port, not yet delivered
  detached,             \* transferables already moved to the peer
  heap,                 \* the concrete object graph replay acts on
  objectRegistry,       \* this.objectRegistry of the replaying Recorder
  peerRefCounts,        \* this.objectRefCounts of the peer Recorder
  effects,              \* real operations performed on the graph, in order
  lastResults,          \* outcome of the last replay() call
  steps,                \* number of trap invocations that went on to
                        \* record() and of raw records
  executed,             \* the records replay executed, in order, each with
                        \* the target, arguments and value it resolved
  bound,                \* every identifier -> value binding replay made
  real,                 \* what each stand-in denotes under direct execution
  directHeap,           \* the graph as direct execution leaves it
  directTrace,          \* real operations of the direct execution
  directOK,             \* direct execution has not thrown so far
  calls,                \* call messages posted on function channels, not
                        \* yet delivered to port1.onmessage
  invoked,              \* every call the peer made on a function channel
  served,               \* every run of port1.onmessage, with its outcome
  evaluations,          \* the promise of every evaluate() call
  uncaught,             \* exceptions that left a message handler
  back,                 \* messages the peer posted, not yet delivered
  answered              \* reads of reserved members and the values returned

vars ==
  << options, recordings, recordingEnabled, replayScheduled, microtasks,
     counter, proxies, finalizationRegistry, disposeCalled, collected, handles,
     disposals, refLog,
     functionChannels, pendingTransferables, objectRefCounts, net, detached,
     heap, objectRegistry, peerRefCounts, effects, lastResults,
     steps, executed, bound, real, directHeap, directTrace, directOK,
     calls, invoked, served, evaluations, uncaught, back, answered >>

\* ------------------------------------------------------------ maps
EmptyMap == [x \in {} |-> Undef]
MapGet(m, id) == IF id \in DOMAIN m THEN m[id] ELSE Undef
MapSet(m, id, v) == [x \in DOMAIN m \cup {id} |-> IF x = id THEN v ELSE m[x]]
MapDelete(m, id) == [x \in DOMAIN m \ {id} |-> m[x]]
CountOf(m, id) == IF id \in DOMAIN m THEN m[id] ELSE 0

\* ------------------------------------------------------------ recording
\* The recording-side fields a trap may touch, threaded through the helpers:
\* h is the root handler whose closure (objectIds, counter) stand-in s runs in.
Cur(s) ==
  [ recordings |-> recordings, replayScheduled |-> replayScheduled,
    microtasks |-> microtasks,
    h |-> proxies[s].handler, counter |-> counter[proxies[s].handler],
    proxies |-> proxies,
    finalizationRegistry |-> finalizationRegistry, refLog |-> refLog,
    functionChannels |-> functionChannels,
    pendingTransferables |-> pendingTransferables,
    objectRefCounts |-> objectRefCounts, objectRegistry |-> objectRegistry,
    net |-> net ]

CommitFields(r) ==
  /\ recordings' = r.recordings
  /\ replayScheduled' = r.replayScheduled
  /\ microtasks' = r.microtasks
  /\ proxies' = r.proxies
  /\ finalizationRegistry' = r.finalizationRegistry
  /\ refLog' = r.refLog
  /\ functionChannels' = r.functionChannels
  /\ pendingTransferables' = r.pendingTransferables
  /\ objectRefCounts' = r.objectRefCounts
  /\ objectRegistry' = r.objectRegistry
  /\ net' = r.net

Commit(r) ==
  /\ CommitFields(r)
  /\ counter' = [counter EXCEPT ![r.h] = r.counter]

\* A stand-in: the targetId its handler was created with, its entry in the
\* objectIds WeakMap (NoId when it has none), the stand-in it was derived
\* from, whether a get trap produced it, and the root handler it descends
\* from.
RootProxy ==
  [targetId |-> RootId, oid |-> NoId, parent |-> 0, viaGet |-> FALSE,
   handler |-> 1]
IsRoot(k) == proxies[k].parent = 0
\* typeof proxy: the root wraps a plain object, a dummy wraps function() {}.
TypeofFunction(r, v) == v.t = "fn" \/ (v.t = "standin" /\ ~IsRoot(v.n))
TypeofObject(r, v) == v.t = "standin" /\ IsRoot(v.n)

\* Messages on the port.
ReplayMsg(ops, transfer) ==
  [type |-> "replay", operations |-> ops, transfer |-> transfer,
   objectId |-> NoId, delta |-> 0]
RefCountMsg(id, d) ==
  [type |-> "refCount", operations |-> <<>>, transfer |-> <<>>,
   objectId |-> id, delta |-> d]
FinalizeMsg(id) ==
  [type |-> "finalize", operations |-> <<>>, transfer |-> <<>>,
   objectId |-> id, delta |-> 0]

\* { type: 'evaluate', objectId, responsePort } with [responsePort].
EvaluateMsg(id, responsePort) ==
  [type |-> "evaluate", operations |-> <<>>, transfer |-> <<>>,
   objectId |-> id, delta |-> 0, responsePort |-> responsePort]

\* A message the handler's tests reject: what is wrong with it.  The pairing
\* loop reads op.type of every entry of a replay message's operations, so an
\* entry that is null makes it throw.
InvalidMsg(type, what) ==
  [type |-> type, operations |-> <<>>, transfer |-> <<>>,
   objectId |-> NoId, delta |-> 0, invalid |-> what]
Invalid(data) == IF "invalid" \in DOMAIN data THEN data.invalid ELSE "none"

\* this.replayScheduled = true; queueMicrotask(...)
QueueFlush(r) ==
  [r EXCEPT !.replayScheduled = TRUE, !.microtasks = @ + 1]

\* A record() that appends whether or not recording is enabled.
RecordWhilePaused(r, operation) ==
  LET r1 == [r EXCEPT !.recordings = Append(@, operation)]
  IN IF options.port /\ options.autoReplay
     THEN IF ~r1.replayScheduled THEN QueueFlush(r1) ELSE r1
     ELSE IF options.autoReplay /\ options.replayContext
             /\ ~r1.replayScheduled
          THEN QueueFlush(r1)
          ELSE r1

\* Recorder.record
Record(r, operation) ==
  IF ~recordingEnabled THEN r
  ELSE LET r1 == [r EXCEPT !.recordings = Append(@, operation)]
       IN IF options.port /\ options.autoReplay
          THEN IF ~r1.replayScheduled THEN QueueFlush(r1) ELSE r1
          ELSE IF options.autoReplay /\ options.replayContext
                  /\ ~r1.replayScheduled
               THEN QueueFlush(r1)
               ELSE r1

\* An _updateRefCount that drops the whole entry on any decrement.
UpdateRefCountDroppingAll(counts, registry, id, delta) ==
  LET newCount == CountOf(counts, id) + delta
  IN IF newCount <= 0 \/ delta < 0
     THEN [counts |-> MapDelete(counts, id), registry |-> MapDelete(registry, id)]
     ELSE [counts |-> MapSet(counts, id, newCount), registry |-> registry]

\* An _updateRefCount that stores a count of zero instead of deleting it.
UpdateRefCountStoringZero(counts, registry, id, delta) ==
  LET newCount == CountOf(counts, id) + delta
  IN IF newCount < 0
     THEN [counts |-> MapDelete(counts, id), registry |-> MapDelete(registry, id)]
     ELSE [counts |-> MapSet(counts, id, newCount), registry |-> registry]

\* Recorder._updateRefCount on a count table and the registry beside it.
UpdateRefCount(counts, registry, id, delta) ==
  LET newCount == CountOf(counts, id) + delta
  IN IF newCount <= 0
     THEN [counts |-> MapDelete(counts, id), registry |-> MapDelete(registry, id)]
     ELSE [counts |-> MapSet(counts, id, newCount), registry |-> registry]

\* In direct mode the recording Recorder is also the replaying one, so its
\* _updateRefCount deletes from the registry replay fills.
OwnRegistry(r) == IF options.port THEN EmptyMap ELSE r.objectRegistry

\* One _updateRefCount call of the recording Recorder, as refLog keeps it;
\* by is the stand-in whose dispose function or finalization made the call.
RefEntry(id, delta, before, after) ==
  [id |-> id, delta |-> delta, before |-> before, after |-> after, by |-> 0]

\* this._updateRefCount(objectId, delta) on the recording Recorder.
UpdateOwnRefCount(r, id, delta) ==
  LET u == UpdateRefCount(r.objectRefCounts, OwnRegistry(r), id, delta)
  IN [r EXCEPT !.objectRefCounts = u.counts,
               !.objectRegistry = IF options.port THEN @ ELSE u.registry,
               !.refLog = Append(@, RefEntry(id, delta,
                                             CountOf(r.objectRefCounts, id),
                                             CountOf(u.counts, id)))]

\* Recorder.incrementRefCount
IncrementRefCount(r, id) ==
  LET u == UpdateOwnRefCount(r, id, 1)
  IN [u EXCEPT !.net = IF options.port THEN Append(@, RefCountMsg(id, 1)) ELSE @]

\* Recorder.decrementRefCount
DecrementRefCount(r, id) ==
  LET u == UpdateOwnRefCount(r, id, -1)
  IN [u EXCEPT !.net = IF options.port THEN Append(@, RefCountMsg(id, -1)) ELSE @]

\* getObjectId(obj) for the stand-in with index k (0: null or undefined).
GetObjectId(r, k) ==
  IF k = 0 THEN [r |-> r, id |-> NoId]
  ELSE IF r.proxies[k].oid # NoId THEN [r |-> r, id |-> r.proxies[k].oid]
  ELSE [r |-> [r EXCEPT !.proxies[k].oid = ObjId(r.counter), !.counter = @ + 1],
        id |-> ObjId(r.counter)]

\* hasObjectId(obj)
HasObjectId(r, k) == k # 0 /\ r.proxies[k].oid # NoId

\* getOrCreateFunctionChannel(fn): channelInfo of the function value, the
\* number in its channelId and its port2; a new MessageChannel is the next
\* one this Recorder creates.
GetOrCreateFunctionChannel(r, fn) ==
  IF fn \in DOMAIN r.functionChannels
  THEN [r |-> r, channel |-> r.functionChannels[fn].channelId,
        port |-> r.functionChannels[fn].port2]
  ELSE LET port2 == Cardinality(DOMAIN r.functionChannels)
       IN [r |-> [r EXCEPT !.functionChannels =
                     MapSet(@, fn, [channelId |-> r.counter, port2 |-> port2]),
                           !.counter = @ + 1],
           channel |-> r.counter, port |-> port2]

\* The number in the channelId of a function that has a channel.
ChannelOf(channels, fn) ==
  IF fn \in DOMAIN channels THEN channels[fn].channelId ELSE 0

\* Entries of pendingTransferables: port2 of a channel, or a stream.
PortOf(c) == [t |-> "port", n |-> c]

\* serializeArgs, one argument.
SerializeArg(r, arg) ==
  IF TypeofObject(r, arg) /\ HasObjectId(r, arg.n)
  THEN [r |-> r, out |-> RefMarker(r.proxies[arg.n].oid)]
  ELSE IF TypeofFunction(r, arg)
  THEN IF arg.t = "standin" /\ HasObjectId(r, arg.n)
       THEN [r |-> r, out |-> RefMarker(r.proxies[arg.n].oid)]
       ELSE LET c == GetOrCreateFunctionChannel(r, arg)
            IN [r |-> [c.r EXCEPT !.pendingTransferables = Append(@, PortOf(c.port))],
                out |-> ChannelMarker(ChannelId(c.channel))]
  ELSE IF arg.t = "streamarg"
  THEN [r |-> [r EXCEPT !.pendingTransferables = Append(@, Stream(arg.n))],
        out |-> TransferMarker]
  ELSE IF arg.t = "lit" THEN [r |-> r, out |-> LitMarker(arg.n)]
  ELSE [r |-> r, out |-> RawMarker(arg.n)]

\* serializeArgs(args): left to right.
RECURSIVE SerializeArgs(_, _)
SerializeArgs(r, args) ==
  IF args = <<>> THEN [r |-> r, out |-> <<>>]
  ELSE LET h == SerializeArg(r, Head(args))
           t == SerializeArgs(h.r, Tail(args))
       IN [r |-> t.r, out |-> <<h.out>> \o t.out]

\* createDummyObject(id): a new stand-in whose handler targets id, entered
\* in objectIds under id, counted once and registered for finalization.
CreateDummyObject(r, id, parent, viaGet) ==
  LET r1 == IncrementRefCount(
              [r EXCEPT !.proxies = Append(@, [targetId |-> id, oid |-> id,
                                               parent |-> parent,
                                               viaGet |-> viaGet,
                                               handler |-> r.h])],
              id)
  IN [r1 EXCEPT !.finalizationRegistry = @ \cup {Len(r1.proxies)}]

\* The caller's operation behind a record: stand-in indexes and raw values.
Src(s, this, args, value, res) ==
  [s |-> s, this |-> this, args |-> args, value |-> value, res |-> res]

Operation(type, target, property, receiver, args, value, resultId, src) ==
  [type |-> type, target |-> target, property |-> property,
   receiver |-> receiver, args |-> args, value |-> value,
   resultId |-> resultId, src |-> src, no |-> steps + 1]

\* A get trap that records the root as the target of every read.
TrapGetOnRoot(r, s, property) ==
  LET resultId == ObjId(r.counter)
      r1 == [r EXCEPT !.counter = @ + 1]
      g == GetObjectId(r1, s)
      r2 == Record(g.r, Operation("get", RootId, property, g.id,
                                  <<>>, NoMarker, resultId,
                                  Src(s, 0, <<>>, NoArg, Len(r.proxies) + 1)))
  IN CreateDummyObject(r2, resultId, s, TRUE)

\* get trap of createRecordHandler, on stand-in s.
TrapGet(r, s, property) ==
  LET resultId == ObjId(r.counter)
      r1 == [r EXCEPT !.counter = @ + 1]
      g == GetObjectId(r1, s)
      r2 == Record(g.r, Operation("get", r.proxies[s].targetId, property, g.id,
                                  <<>>, NoMarker, resultId,
                                  Src(s, 0, <<>>, NoArg, Len(r.proxies) + 1)))
  IN CreateDummyObject(r2, resultId, s, TRUE)

\* The serialized value of a set that is neither a function nor a stream.
SerializeValue(r, value) ==
  IF TypeofObject(r, value)
  THEN LET g == GetObjectId(r, value.n) IN [r |-> g.r, out |-> RefMarker(g.id)]
  ELSE [r |-> r, out |-> LitMarker(value.n)]

\* set trap of createRecordHandler, on stand-in s.
TrapSet(r, s, property, value) ==
  LET target == r.proxies[s].targetId
      src == Src(s, 0, <<>>, value, 0)
  IN IF TypeofFunction(r, value)
     THEN LET c == GetOrCreateFunctionChannel(r, value)
              g == GetObjectId(c.r, s)
              r2 == Record(g.r, Operation("set", target, property, g.id, <<>>,
                                          ChannelMarker(ChannelId(c.channel)),
                                          NoId, src))
          IN [r2 EXCEPT !.pendingTransferables = Append(@, PortOf(c.port))]
     ELSE IF value.t = "streamarg"
     THEN LET g == GetObjectId(r, s)
              r2 == Record(g.r, Operation("set", target, property, g.id, <<>>,
                                          TransferMarker, NoId, src))
          IN [r2 EXCEPT !.pendingTransferables = Append(@, Stream(value.n))]
     ELSE LET v == SerializeValue(r, value)
              g == GetObjectId(v.r, s)
          IN Record(g.r, Operation("set", target, property, g.id, <<>>,
                                   v.out, NoId, src))

\* thisArg of a call: the stand-in a method was read from, or undefined.
ThisArg(r, s) == IF r.proxies[s].viaGet THEN r.proxies[s].parent ELSE 0

\* apply trap of createRecordHandler, on stand-in s.
TrapApply(r, s, args) ==
  LET resultId == ObjId(r.counter)
      r1 == [r EXCEPT !.counter = @ + 1]
      g == GetObjectId(r1, ThisArg(r, s))
      a == SerializeArgs(g.r, args)
      r2 == Record(a.r, Operation("apply", r.proxies[s].targetId, "", g.id,
                                  a.out, NoMarker, resultId,
                                  Src(s, ThisArg(r, s), args, NoArg,
                                      Len(r.proxies) + 1)))
  IN CreateDummyObject(r2, resultId, s, FALSE)

\* construct trap of createRecordHandler, on stand-in s.
TrapConstruct(r, s, args) ==
  LET resultId == ObjId(r.counter)
      r1 == [r EXCEPT !.counter = @ + 1]
      a == SerializeArgs(r1, args)
      r2 == Record(a.r, Operation("construct", r.proxies[s].targetId, "", NoId,
                                  a.out, NoMarker, resultId,
                                  Src(s, 0, args, NoArg, Len(r.proxies) + 1)))
  IN CreateDummyObject(r2, resultId, s, FALSE)

\* ------------------------------------------------------------ the target
\* One real operation on the graph, as a spy on the target would log it.
Effect(kind, obj, property, receiver, args, value) ==
  [kind |-> kind, obj |-> obj, property |-> property, receiver |-> receiver,
   args |-> args, value |-> value]

\* obj[property] for a value that is not undefined or null.
GetMember(h, obj, property) ==
  IF obj.t = "obj" /\ property \in DOMAIN h[obj.n] THEN h[obj.n][property]
  ELSE Undef

\* obj[property] = value in strict mode: a TypeError on a primitive.
CanSetMember(obj) == obj.t \notin {"prim", "bool", "undef"}
SetMember(h, obj, property, value) ==
  IF obj.t = "obj" THEN [h EXCEPT ![obj.n][property] = value] ELSE h

\* Calling or constructing a value: [thrown, result, heap].  Only root.f,
\* root.a.f and the callables built from channel markers are functions; a
\* callable built from a channel marker is an arrow function, which posts the
\* call and returns undefined, and cannot be constructed.
IsCallable(fn, construct) ==
  fn \in {Obj(FObj), Obj(GObj)} \/ (fn.t = "cb" /\ ~construct)
CallFn(h, fn, construct) ==
  IF fn = Obj(FObj)
  THEN [thrown |-> "none", result |-> Obj(Len(h) + 1),
        heap |-> Append(h, EmptyObject)]
  ELSE IF fn = Obj(GObj)
  THEN [thrown |-> "null", result |-> Undef, heap |-> h]
  ELSE IF IsCallable(fn, construct)
  THEN [thrown |-> "none", result |-> Undef, heap |-> h]
  ELSE [thrown |-> "error", result |-> Undef, heap |-> h]

\* ------------------------------------------------------------ replay
\* What one _replayRecordings call works on; batch numbers the calls.
ReplayState(context) ==
  [ heap |-> heap, objectMap |-> MapSet(EmptyMap, RootId, context),
    objectRegistry |-> objectRegistry, effects |-> effects,
    executed |-> executed, bound |-> bound, batch |-> lastResults.calls + 1 ]

\* resolveValue / one element of resolveArgs.
ResolveValue(rs, val) ==
  IF val.m = "channel" THEN Cb(val.id.n)
  ELSE IF val.m = "transfer" THEN Undef
  ELSE IF val.m = "ref" THEN MapGet(rs.objectMap, val.id)
  ELSE IF val.m = "lit" THEN Prim(val.n)
  ELSE IF val.m = "raw" THEN [t |-> "proxy", n |-> val.n]
  ELSE Undef
ResolveArgs(rs, args) == [i \in 1..Len(args) |-> ResolveValue(rs, args[i])]

\* objectMap.get(id) || context
OrContext(rs, id) ==
  IF Truthy(MapGet(rs.objectMap, id)) THEN MapGet(rs.objectMap, id)
  ELSE rs.objectMap[RootId]

\* if (resultId && result !== undefined && result !== null) { ... }
BindResult(rs, resultId, result) ==
  IF resultId # NoId /\ result # Undef
  THEN [rs EXCEPT !.objectMap = MapSet(@, resultId, result),
                  !.objectRegistry = MapSet(@, resultId, result),
                  !.bound = @ \cup {[id |-> resultId, value |-> result,
                                      batch |-> rs.batch]}]
  ELSE rs

Returned(rs, result) == [rs |-> rs, thrown |-> "none", result |-> result]
Thrown(rs, what) == [rs |-> rs, thrown |-> what, result |-> Undef]

\* The record being executed, with what the engine resolved for it.
Executing(rs, op, obj, args, value) ==
  [rs EXCEPT !.executed = Append(@, [op |-> op, obj |-> obj, args |-> args,
                                     value |-> value, batch |-> rs.batch])]

ReplayGet(op, rs0) ==
  LET obj == OrContext(rs0, op.target)
      rs == Executing(rs0, op, obj, <<>>, Undef)
      result == GetMember(rs.heap, obj, op.property)
      rs1 == [rs EXCEPT !.effects =
                Append(@, Effect("get", obj, op.property, Undef, <<>>, Undef))]
  IN Returned(BindResult(rs1, op.resultId, result), result)

ReplaySet(op, rs0) ==
  LET setObj == OrContext(rs0, op.target)
      resolvedValue == ResolveValue(rs0, op.value)
      rs == Executing(rs0, op, setObj, <<>>, resolvedValue)
  IN IF ~CanSetMember(setObj) THEN Thrown(rs, "error")
     ELSE Returned(
            [rs EXCEPT !.heap = SetMember(@, setObj, op.property, resolvedValue),
                       !.effects = Append(@, Effect("set", setObj, op.property,
                                                    Undef, <<>>, resolvedValue))],
            True)

ReplayCall(op, rs0, construct) ==
  LET fn == MapGet(rs0.objectMap, op.target)
      thisArg == IF construct THEN Undef ELSE OrContext(rs0, op.receiver)
      resolvedArgs == ResolveArgs(rs0, op.args)
      rs == Executing(rs0, op, fn, resolvedArgs, Undef)
      c == CallFn(rs.heap, fn, construct)
      rs1 == [rs EXCEPT !.heap = c.heap,
                        !.effects = Append(@, Effect(op.type, fn, "", thisArg,
                                                     resolvedArgs, Undef))]
  IN IF ~IsCallable(fn, construct) THEN Thrown(rs, "error")
     ELSE IF c.thrown # "none" THEN Thrown(rs1, c.thrown)
     ELSE Returned(BindResult(rs1, op.resultId, c.result), c.result)

\* Recorder._replayOperation
ReplayOperation(op, rs) ==
  CASE op.type = "get" -> ReplayGet(op, rs)
    [] op.type = "set" -> ReplaySet(op, rs)
    [] op.type = "apply" -> ReplayCall(op, rs, FALSE)
    [] op.type = "construct" -> ReplayCall(op, rs, TRUE)
    [] OTHER -> Thrown(Executing(rs, op, Undef, <<>>, Undef), "error")

\* Recorder._replayRecordings: the loop with its try/catch.  The catch block
\* reads error.message, which itself throws when the thrown value is null.
RECURSIVE ReplayLoop(_, _, _)
ReplayLoop(ops, rs, results) ==
  IF ops = <<>> THEN [rs |-> rs, results |-> results, escaped |-> FALSE]
  ELSE LET o == ReplayOperation(Head(ops), rs)
       IN IF o.thrown = "none"
          THEN ReplayLoop(Tail(ops), o.rs, Append(results, o.result))
          ELSE IF o.thrown = "error"
          THEN ReplayLoop(Tail(ops), o.rs, Append(results, ErrorEntry))
          ELSE [rs |-> o.rs, results |-> results, escaped |-> TRUE]

\* A replay that walks the batch from its last record to its first.
LastFirst(ops) == [i \in 1..Len(ops) |-> ops[Len(ops) + 1 - i]]
ReplayRecordingsLastFirst(ops, context) ==
  ReplayLoop(LastFirst(ops), ReplayState(context), <<>>)

ReplayRecordings(ops, context) == ReplayLoop(ops, ReplayState(context), <<>>)

\* ------------------------------------------------------------ direct execution
\* The same caller operations performed on the real graph instead of on
\* stand-ins: what the spy target would log.  A function value handed to the
\* target is identified with the callable of its channel.
DirectValue(ds, v) ==
  IF v.t = "lit" THEN Prim(v.n)
  ELSE IF v.t = "standin" THEN MapGet(ds.real, v.n)
  ELSE IF v.t = "fn" THEN Cb(ChannelOf(functionChannels, v))
  ELSE IF v.t = "streamarg" THEN Stream(v.n)
  ELSE Undef
DirectArgs(ds, args) == [i \in 1..Len(args) |-> DirectValue(ds, args[i])]

Aborted(ds) == [ds EXCEPT !.ok = FALSE]

DirectOperation(op, ds) ==
  LET obj == MapGet(ds.real, op.src.s)
      thisArg == IF op.src.this = 0 THEN Obj(ContextObj)
                 ELSE MapGet(ds.real, op.src.this)
  IN IF ~ds.ok \/ op.type \notin {"get", "set", "apply", "construct"} THEN ds
     ELSE IF op.type = "get"
     THEN IF obj = Undef THEN Aborted(ds)
          ELSE [ds EXCEPT
                  !.trace = Append(@, Effect("get", obj, op.property, Undef,
                                             <<>>, Undef)),
                  !.real = MapSet(@, op.src.res,
                                  GetMember(ds.heap, obj, op.property))]
     ELSE IF op.type = "set"
     THEN IF ~CanSetMember(obj) THEN Aborted(ds)
          ELSE [ds EXCEPT
                  !.heap = SetMember(@, obj, op.property,
                                     DirectValue(ds, op.src.value)),
                  !.trace = Append(@, Effect("set", obj, op.property, Undef,
                                             <<>>, DirectValue(ds, op.src.value)))]
     ELSE LET construct == op.type = "construct"
              c == CallFn(ds.heap, obj, construct)
              called == [ds EXCEPT
                           !.heap = c.heap,
                           !.trace = Append(@, Effect(op.type, obj, "",
                                        IF construct THEN Undef ELSE thisArg,
                                        DirectArgs(ds, op.src.args), Undef)),
                           !.real = MapSet(@, op.src.res, c.result)]
          IN IF obj \notin {Obj(FObj), Obj(GObj)} THEN Aborted(ds)
             ELSE IF c.thrown # "none" THEN Aborted(called)
             ELSE called

RECURSIVE DirectRun(_, _)
DirectRun(ops, ds) ==
  IF ops = <<>> THEN ds ELSE DirectRun(Tail(ops), DirectOperation(Head(ops), ds))

DirectState ==
  [heap |-> directHeap, real |-> real, trace |-> directTrace, ok |-> directOK]

\* ------------------------------------------------------------ actions
\* The state after new Recorder(options), with one root stand-in made
\* over a target graph.
InitState(configs, graph) ==
  /\ options \in configs
  /\ recordings = <<>>
  /\ recordingEnabled = TRUE
  /\ replayScheduled = FALSE
  /\ microtasks = 0
  /\ counter = <<0>>
  /\ proxies = <<RootProxy>>
  /\ finalizationRegistry = {}
  /\ disposeCalled = {}
  /\ collected = {}
  /\ handles = <<>>
  /\ disposals = <<>>
  /\ refLog = <<>>
  /\ functionChannels = EmptyMap
  /\ pendingTransferables = <<>>
  /\ objectRefCounts = EmptyMap
  /\ net = <<>>
  /\ detached = {}
  /\ heap = graph
  /\ objectRegistry = EmptyMap
  /\ peerRefCounts = EmptyMap
  /\ effects = <<>>
  /\ lastResults = [ops |-> <<>>, results |-> <<>>, escaped |-> FALSE,
                    by |-> "none", calls |-> 0, manual |-> 0]
  /\ steps = 0
  /\ executed = <<>>
  /\ bound = {}
  /\ real = MapSet(EmptyMap, 1, Obj(ContextObj))
  /\ directHeap = graph
  /\ directTrace = <<>>
  /\ directOK = TRUE
  /\ calls = <<>>
  /\ invoked = <<>>
  /\ served = <<>>
  /\ evaluations = <<>>
  /\ uncaught = 0
  /\ back = <<>>
  /\ answered = <<>>
Init == InitState(Configs, InitialHeap)

\* Values the caller can write or pass.
SrcValues ==
  {Lit(1), StreamArg(1)} \cup {StandIn(k) : k \in 1..Len(proxies)}
    \cup {Fn(f) : f \in 1..MaxFns}
ArgLists == {<<>>} \cup {<<v>> : v \in SrcValues}

\* No call crosses a function channel and no evaluate() is made or answered.
BridgeUnchanged ==
  UNCHANGED << calls, invoked, served, evaluations, uncaught, back,
               answered >>

ReplaySideUnchanged ==
  /\ UNCHANGED << heap, effects, lastResults, executed, bound, real,
                  directHeap, directTrace, directOK, peerRefCounts, detached >>
  /\ BridgeUnchanged

\* No stand-in or handle is disposed of, collected or created.
LifecycleUnchanged ==
  UNCHANGED << finalizationRegistry, disposeCalled, collected, handles, disposals, refLog >>

\* A trap ran: nothing but the recording side changes.
Trapped(r) ==
  /\ steps < MaxOps
  /\ Commit(r)
  /\ steps' = steps + 1
  /\ UNCHANGED << options, recordingEnabled, disposeCalled, collected, handles, disposals >>
  /\ ReplaySideUnchanged

\* A get trap that forwards the read to the target while recording it.
GetForwarding(s, property) ==
  /\ steps < MaxOps
  /\ Commit(TrapGet(Cur(s), s, property))
  /\ steps' = steps + 1
  /\ effects' = Append(effects, Effect("get", Obj(ContextObj), property, Undef,
                                       <<>>, Undef))
  /\ UNCHANGED << options, recordingEnabled, heap, lastResults, executed, bound,
                  real, directHeap, directTrace, directOK, peerRefCounts,
                  detached, disposeCalled, collected, handles, disposals >>
  /\ BridgeUnchanged

\* Reads of reserved members in one behaviour.
MaxReserved == 2

\* The members the get trap answers itself, with its answers: 'then',
\* Symbol.toStringTag and Symbol.iterator.
ReservedAnswers ==
  [p \in {"then", "Symbol.toStringTag", "Symbol.iterator"} |->
     IF p = "Symbol.toStringTag" THEN [t |-> "RecorderProxy", n |-> 0]
     ELSE Undef]

\* A get trap that answers a reserved member and records the read as well.
GetRecordingReserved(s, property) ==
  IF property \in DOMAIN ReservedAnswers
  THEN /\ Len(answered) < MaxReserved /\ steps < MaxOps
       /\ answered' = Append(answered, [property |-> property,
                                        value |-> ReservedAnswers[property]])
       /\ Commit(TrapGet(Cur(s), s, property))
       /\ UNCHANGED << options, recordingEnabled, disposeCalled, collected,
                       handles, disposals, steps, heap, effects, lastResults, executed,
                       bound, real, directHeap, directTrace, directOK,
                       peerRefCounts, detached, calls, invoked, served,
                       evaluations, uncaught, back >>
  ELSE Trapped(TrapGet(Cur(s), s, property))

\* standIn[property]
Get(s, property) ==
  IF property \in DOMAIN ReservedAnswers
  THEN /\ Len(answered) < MaxReserved
       /\ answered' = Append(answered, [property |-> property,
                                        value |-> ReservedAnswers[property]])
       /\ UNCHANGED << options, recordings, recordingEnabled, replayScheduled,
                       microtasks, counter, proxies, finalizationRegistry,
                       disposeCalled, collected, handles, disposals, refLog,
                       functionChannels, pendingTransferables,
                       objectRefCounts, net, detached, heap, objectRegistry,
                       peerRefCounts, effects, lastResults, steps, executed,
                       bound, real, directHeap, directTrace, directOK, calls,
                       invoked, served, evaluations, uncaught, back >>
  ELSE Trapped(TrapGet(Cur(s), s, property))
\* standIn[property] = value
Set(s, property, value) == Trapped(TrapSet(Cur(s), s, property, value))
\* standIn(...args), as parent.method(...args) when a get produced standIn
Apply(s, args) == ~IsRoot(s) /\ Trapped(TrapApply(Cur(s), s, args))
\* new standIn(...args)
Construct(s, args) == ~IsRoot(s) /\ Trapped(TrapConstruct(Cur(s), s, args))
\* recorder.record({ type: 'test' })
RecordRaw ==
  Trapped(Record(Cur(1), Operation("test", NoId, "", NoId, <<>>, NoMarker, NoId,
                                Src(0, 0, <<>>, NoArg, 0))))

ControlUnchanged ==
  /\ UNCHANGED << options, replayScheduled, microtasks, counter, proxies, functionChannels,
                  pendingTransferables, objectRefCounts, net, objectRegistry,
                  steps >>
  /\ ReplaySideUnchanged
  /\ LifecycleUnchanged

Pause ==
  /\ recordingEnabled /\ recordingEnabled' = FALSE
  /\ UNCHANGED recordings /\ ControlUnchanged
Resume ==
  /\ ~recordingEnabled /\ recordingEnabled' = TRUE
  /\ UNCHANGED recordings /\ ControlUnchanged
Clear ==
  /\ recordings # <<>> /\ recordings' = <<>>
  /\ UNCHANGED recordingEnabled /\ ControlUnchanged

\* A _replayRecordings call on ops took place, with the direct execution of
\* the same caller operations alongside.
Replayed(ops, out, by) ==
  /\ heap' = out.rs.heap
  /\ objectRegistry' = out.rs.objectRegistry
  /\ effects' = out.rs.effects
  /\ executed' = out.rs.executed
  /\ bound' = out.rs.bound
  /\ lastResults' = [ops |-> ops, results |-> out.results,
                     escaped |-> out.escaped, by |-> by,
                     calls |-> lastResults.calls + 1,
                     manual |-> lastResults.manual
                                  + (IF by = "replay" THEN 1 ELSE 0)]
  /\ LET d == DirectRun(ops, DirectState)
     IN /\ real' = d.real /\ directHeap' = d.heap
        /\ directTrace' = d.trace /\ directOK' = d.ok

NothingReplayed ==
  UNCHANGED << heap, objectRegistry, effects, executed, bound, lastResults,
               real, directHeap, directTrace, directOK >>

\* Every record number in a sequence of records.
Nos(ops) == [i \in 1..Len(ops) |-> ops[i].no]

\* A replay that leaves the log as it was.
ReplayKeepingLog ==
  /\ ~options.port
  /\ lastResults.manual < MaxReplays
  /\ UNCHANGED recordings
  /\ Replayed(recordings, ReplayRecordings(recordings, Obj(ContextObj)),
              "replay")
  /\ UNCHANGED << options, recordingEnabled, replayScheduled, microtasks,
                  counter, proxies, functionChannels, pendingTransferables,
                  objectRefCounts, net, detached, peerRefCounts, steps >>
  /\ LifecycleUnchanged
  /\ BridgeUnchanged

\* Recorder.replay(context), the caller passing the root of the graph.
Replay ==
  /\ ~options.port
  /\ lastResults.manual < MaxReplays
  /\ recordings' = <<>>
  /\ Replayed(recordings, ReplayRecordings(recordings, Obj(ContextObj)),
              "replay")
  /\ UNCHANGED << options, recordingEnabled, replayScheduled, microtasks,
                  counter, proxies, functionChannels, pendingTransferables,
                  objectRefCounts, net, detached, peerRefCounts, steps >>
  /\ LifecycleUnchanged
  /\ BridgeUnchanged

\* Recorder._autoReplay, run by the microtask record() queued.
AutoReplay ==
  /\ microtasks > 0 /\ ~options.port
  /\ microtasks' = microtasks - 1
  /\ replayScheduled' = FALSE
  /\ IF ~options.replayContext \/ recordings = <<>>
     THEN UNCHANGED recordings /\ NothingReplayed
     ELSE /\ recordings' = <<>>
          /\ Replayed(recordings,
                      ReplayRecordings(recordings, Obj(ContextObj)), "auto")
  /\ UNCHANGED << options, recordingEnabled, counter, proxies, functionChannels,
                  pendingTransferables, objectRefCounts, net, detached,
                  peerRefCounts, steps >>
  /\ LifecycleUnchanged
  /\ BridgeUnchanged

\* postMessage(message, transfer) throws a DataCloneError, and sends nothing,
\* when transfer lists an object twice or one that was already transferred.
Range(q) == {q[i] : i \in 1..Len(q)}
CanTransfer(transfer) ==
  /\ Cardinality(Range(transfer)) = Len(transfer)
  /\ Range(transfer) \cap detached = {}

\* A flush through the port that sends the log without emptying it.
SendOperationsViaPortKeepingLog ==
  /\ microtasks > 0 /\ options.port
  /\ microtasks' = microtasks - 1
  /\ replayScheduled' = FALSE
  /\ IF recordings = <<>>
     THEN UNCHANGED << recordings, pendingTransferables, net, detached >>
     ELSE /\ UNCHANGED recordings
          /\ pendingTransferables' = <<>>
          /\ IF CanTransfer(pendingTransferables)
             THEN /\ net' = Append(net, ReplayMsg(recordings, pendingTransferables))
                  /\ detached' = detached \cup Range(pendingTransferables)
             ELSE UNCHANGED << net, detached >>
  /\ NothingReplayed
  /\ UNCHANGED << options, recordingEnabled, counter, proxies, functionChannels,
                  objectRefCounts, peerRefCounts, steps >>
  /\ LifecycleUnchanged
  /\ BridgeUnchanged

\* Recorder._sendOperationsViaPort, run by the microtask record() queued.
SendOperationsViaPort ==
  /\ microtasks > 0 /\ options.port
  /\ microtasks' = microtasks - 1
  /\ replayScheduled' = FALSE
  /\ IF recordings = <<>>
     THEN UNCHANGED << recordings, pendingTransferables, net, detached >>
     ELSE /\ recordings' = <<>>
          /\ pendingTransferables' = <<>>
          /\ IF CanTransfer(pendingTransferables)
             THEN /\ net' = Append(net, ReplayMsg(recordings, pendingTransferables))
                  /\ detached' = detached \cup Range(pendingTransferables)
             ELSE UNCHANGED << net, detached >>
  /\ NothingReplayed
  /\ UNCHANGED << options, recordingEnabled, counter, proxies, functionChannels,
                  objectRefCounts, peerRefCounts, steps >>
  /\ LifecycleUnchanged
  /\ BridgeUnchanged

\* ------------------------------------------------------------ the peer
\* The channel markers _handlePortMessage pairs with transferred ports: the
\* value of a set, the arguments of an apply.
MarkersToMap(op) ==
  IF op.type = "set"
  THEN IF op.value.m = "channel" THEN <<op.value>> ELSE <<>>
  ELSE IF op.type = "apply"
  THEN SelectSeq(op.args, LAMBDA a : a.m = "channel")
  ELSE <<>>

RECURSIVE AllMarkers(_)
AllMarkers(ops) ==
  IF ops = <<>> THEN <<>> ELSE MarkersToMap(Head(ops)) \o AllMarkers(Tail(ops))

\* objectRegistry.set(channelId, { port: transferredPorts[portIndex++] })
RECURSIVE MapPorts(_, _, _)
MapPorts(markers, transferredPorts, registry) ==
  IF markers = <<>> \/ transferredPorts = <<>> THEN registry
  ELSE MapPorts(Tail(markers), Tail(transferredPorts),
                MapSet(registry, Head(markers).id, Head(transferredPorts)))

\* event.ports: the MessagePorts of the transfer list.
EventPorts(msg) == SelectSeq(msg.transfer, LAMBDA x : x.t = "port")

\* postMessage's structured clone of a value: functions, ports and streams
\* cannot be cloned, nor can an object that reaches one.
RECURSIVE CloneableFrom(_, _, _)
CloneableFrom(h, todo, seen) ==
  IF todo = {} THEN TRUE
  ELSE LET v == CHOOSE x \in todo : TRUE
       IN IF v.t \in {"undef", "prim", "bool"}
          THEN CloneableFrom(h, todo \ {v}, seen)
          ELSE IF v.t = "obj" /\ ~IsCallable(v, FALSE)
          THEN CloneableFrom(h,
                 (todo \cup {h[v.n][p] : p \in DOMAIN h[v.n]})
                   \ (seen \cup {v}),
                 seen \cup {v})
          ELSE FALSE

\* The promise of an evaluate() call: what it asked for and how it settled.
Pending(id) ==
  [objectId |-> id, state |-> "pending", value |-> Undef, error |-> "none"]
Resolved(e, v) == [e EXCEPT !.state = "resolved", !.value = v]
Rejected(e, error) == [e EXCEPT !.state = "rejected", !.error = error]

\* Recorder._handleEvaluateRequest on the peer, and the response's arrival
\* at responsePort's onmessage in evaluate().
HandleEvaluateRequest(h, registry, data, e) ==
  LET obj == MapGet(registry, data.objectId)
  IN IF ~Truthy(obj) THEN Rejected(e, "Object not found")
     ELSE IF CloneableFrom(h, {obj}, {}) THEN Resolved(e, obj)
     ELSE Rejected(e, "DataCloneError")

\* Recorder._handlePortMessage on the peer, which has a replayContext.
HandlePortMessage ==
  /\ net # <<>>
  /\ net' = Tail(net)
  /\ IF Head(net).type = "evaluate"
     THEN evaluations' =
            [evaluations EXCEPT ![Head(net).responsePort] =
               HandleEvaluateRequest(heap, objectRegistry, Head(net), @)]
     ELSE UNCHANGED evaluations
  /\ uncaught' = IF Invalid(Head(net)) = "null operation"
                 THEN uncaught + 1 ELSE uncaught
  /\ UNCHANGED << calls, invoked, served, back, answered >>
  /\ LET data == Head(net)
     IN IF Invalid(data) # "none"
        THEN NothingReplayed /\ UNCHANGED peerRefCounts
        ELSE IF data.type = "replay"
        THEN LET mapped == MapPorts(AllMarkers(data.operations),
                                    EventPorts(data), objectRegistry)
                 out == ReplayLoop(data.operations,
                                   [ReplayState(Obj(ContextObj))
                                      EXCEPT !.objectRegistry = mapped],
                                   <<>>)
             IN Replayed(data.operations, out, "peer")
                /\ UNCHANGED peerRefCounts
        ELSE IF data.type = "refCount"
        THEN LET u == UpdateRefCount(peerRefCounts, objectRegistry,
                                     data.objectId, data.delta)
             IN /\ peerRefCounts' = u.counts
                /\ objectRegistry' = u.registry
                /\ UNCHANGED << heap, effects, executed, bound, lastResults,
                                real, directHeap, directTrace, directOK >>
        ELSE NothingReplayed /\ UNCHANGED peerRefCounts
  /\ UNCHANGED << options, recordings, recordingEnabled, replayScheduled,
                  microtasks, counter, proxies, functionChannels, pendingTransferables,
                  objectRefCounts, detached, steps >>
  /\ LifecycleUnchanged

Next ==
  \/ \E s \in 1..Len(proxies), property \in Props : Get(s, property)
  \/ \E s \in 1..Len(proxies), property \in SetProps, value \in SrcValues :
       Set(s, property, value)
  \/ \E s \in 1..Len(proxies), args \in ArgLists : Apply(s, args)
  \/ \E s \in 1..Len(proxies), args \in ArgLists : Construct(s, args)
  \/ RecordRaw
  \/ ~options.autoReplay /\ Replay
  \/ AutoReplay
  \/ SendOperationsViaPort
  \/ HandlePortMessage

Spec == Init /\ [][Next]_vars

\* The control surface (pause, resume, clear, manual replay in every
\* configuration without a port) around a smaller set of trapped operations:
\* reads of f, writes of a literal or a function, calls without arguments.
ControlValues == {Lit(1)} \cup {Fn(f) : f \in 1..MaxFns}
NextControl ==
  \/ \E s \in 1..Len(proxies) : Get(s, "f")
  \/ \E s \in 1..Len(proxies), value \in ControlValues : Set(s, "v", value)
  \/ \E s \in 1..Len(proxies) : Apply(s, <<>>)
  \/ Pause
  \/ Resume
  \/ Clear
  \/ Replay
  \/ AutoReplay
  \/ SendOperationsViaPort
  \/ HandlePortMessage
SpecControl == Init /\ [][NextControl]_vars

\* ------------------------------------------------------------ lifecycle
\* Identifiers a caller names in incrementRefCount / decrementRefCount.
RefIds == {RootId, ObjId(0)}
\* Bounds on the _updateRefCount calls, on the root handlers and on the
\* member reads of a run.
MaxRefLog == 4
MaxHandlers == 2
MaxRefGets == 1

\* String(Symbol.dispose), the property a get trap records for it.
DisposeMember == "Symbol(Symbol.dispose)"

\* The stand-ins the holder can still reach.
Live == {k \in 1..Len(proxies) : k \notin collected}

\* A call into the Recorder outside the traps: no operation is trapped
\* and nothing is replayed.
Called(r) ==
  /\ Commit(r)
  /\ UNCHANGED << options, recordingEnabled, steps >>
  /\ ReplaySideUnchanged

\* recorder.incrementRefCount(id)
Acquire(id) ==
  /\ Len(refLog) < MaxRefLog
  /\ Called(IncrementRefCount(Cur(1), id))
  /\ UNCHANGED << disposeCalled, collected, handles, disposals >>

\* recorder.decrementRefCount(id)
Release(id) ==
  /\ Len(refLog) < MaxRefLog
  /\ Called(DecrementRefCount(Cur(1), id))
  /\ UNCHANGED << disposeCalled, collected, handles, disposals >>

\* createRecordedObject(recorder): a new root handler with its own objectIds
\* and counter, a stand-in for it, and a RecordedObjectHandle on 'globalThis'
\* whose constructor increments the count.
CreateRecordedObject ==
  /\ Len(refLog) < MaxRefLog /\ Len(counter) < MaxHandlers
  /\ CommitFields(
       IncrementRefCount(
         [Cur(1) EXCEPT !.proxies =
            Append(@, [RootProxy EXCEPT !.handler = Len(counter) + 1])],
         RootId))
  /\ counter' = Append(counter, 0)
  /\ handles' = Append(handles, RootId)
  /\ disposals' = Append(disposals, 0)
  /\ real' = MapSet(real, Len(proxies) + 1, Obj(ContextObj))
  /\ UNCHANGED << options, recordingEnabled, steps, disposeCalled, collected,
                  heap, effects, lastResults, executed, bound, directHeap,
                  directTrace, directOK, peerRefCounts, detached >>
  /\ BridgeUnchanged

\* RecordedObjectHandle[Symbol.dispose]() on the k-th handle.
DisposeHandle(k) ==
  /\ Len(refLog) < MaxRefLog
  /\ Called(DecrementRefCount(Cur(1), handles[k]))
  /\ disposals' = [disposals EXCEPT ![k] = @ + 1]
  /\ UNCHANGED << disposeCalled, collected, handles >>

\* The call recorded in the last refLog entry was made for stand-in s.
MadeBy(r, s) == [r EXCEPT !.refLog[Len(r.refLog)].by = s]

\* A dispose function that leaves the stand-in registered for finalization.
DisposeFunctionStayingRegistered(s) ==
  /\ Len(refLog) < MaxRefLog
  /\ IF s \notin disposeCalled
     THEN /\ Called(MadeBy(DecrementRefCount(Cur(s), proxies[s].oid), s))
          /\ disposeCalled' = disposeCalled \cup {s}
     ELSE Called(Cur(s)) /\ UNCHANGED disposeCalled
  /\ UNCHANGED << collected, handles, disposals >>

\* The function createDummyObject defines under Symbol.dispose, called on
\* stand-in s.
DisposeFunction(s) ==
  /\ Len(refLog) < MaxRefLog
  /\ IF s \notin disposeCalled
     THEN /\ Called(MadeBy(DecrementRefCount(
                              [Cur(s) EXCEPT !.finalizationRegistry = @ \ {s}],
                              proxies[s].oid), s))
          /\ disposeCalled' = disposeCalled \cup {s}
     ELSE Called(Cur(s)) /\ UNCHANGED disposeCalled
  /\ UNCHANGED << collected, handles, disposals >>

\* The disposal protocol of a `using` declaration on stand-in s:
\* s[Symbol.dispose] runs the get trap, calling what it returns with s as
\* this runs the apply trap.
DisposeStandIn(s) ==
  /\ steps + 2 <= MaxOps /\ Len(refLog) < MaxRefLog
  /\ LET g == TrapGet(Cur(s), s, DisposeMember)
         a == TrapApply(g, Len(g.proxies), <<>>)
     IN Commit([a EXCEPT !.recordings =
                  IF Len(@) > Len(g.recordings)
                  THEN [@ EXCEPT ![Len(@)].no = steps + 2] ELSE @])
  /\ steps' = steps + 2
  /\ UNCHANGED << options, recordingEnabled, disposeCalled, collected, handles, disposals >>
  /\ ReplaySideUnchanged

\* Recorder._handleFinalization
HandleFinalization(r, id) ==
  IF CountOf(r.objectRefCounts, id) > 0
  THEN LET u == UpdateOwnRefCount(r, id, -1)
       IN [u EXCEPT !.net = IF options.port THEN Append(@, FinalizeMsg(id))
                              ELSE @]
  ELSE r

\* The garbage collector reclaims stand-in s; if s is still registered the
\* FinalizationRegistry callback runs with its identifier.
Finalize(s) ==
  /\ collected' = collected \cup {s}
  /\ IF s \in finalizationRegistry
     THEN Called(MadeBy(HandleFinalization(
                          [Cur(s) EXCEPT !.finalizationRegistry = @ \ {s}],
                          proxies[s].oid), s))
     ELSE Called(Cur(s))
  /\ UNCHANGED << disposeCalled, handles, disposals >>

NextRef ==
  \/ \E s \in Live : steps < MaxRefGets /\ Get(s, "a")
  \/ \E id \in RefIds : Acquire(id)
  \/ \E id \in RefIds : Release(id)
  \/ CreateRecordedObject
  \/ \E k \in 1..Len(handles) : DisposeHandle(k)
  \/ \E s \in Live : ~IsRoot(s) /\ DisposeFunction(s)
  \/ \E s \in Live : ~IsRoot(s) /\ DisposeStandIn(s)
  \/ \E s \in Live : ~IsRoot(s) /\ Finalize(s)
  \/ AutoReplay
  \/ SendOperationsViaPort
  \/ HandlePortMessage
SpecRef == Init /\ [][NextRef]_vars

\* ------------------------------------------------------------ handlers
\* Functions the caller writes or passes when several root handlers record
\* into the Recorder.
MaxChannelFns == 2
ChannelFns == {Fn(f) : f \in 1..MaxChannelFns}

\* new Proxy(target, createRecordHandler(recorder)): one more root handler,
\* with its own objectIds and counter, for the same Recorder.
CreateHandler ==
  /\ Len(counter) < MaxHandlers
  /\ proxies' = Append(proxies, [RootProxy EXCEPT !.handler = Len(counter) + 1])
  /\ counter' = Append(counter, 0)
  /\ real' = MapSet(real, Len(proxies) + 1, Obj(ContextObj))
  /\ UNCHANGED << options, recordings, recordingEnabled, replayScheduled,
                  microtasks, finalizationRegistry, disposeCalled, collected,
                  handles, disposals, refLog, functionChannels, pendingTransferables,
                  objectRefCounts, net, detached, heap, objectRegistry,
                  peerRefCounts, effects, lastResults, steps, executed, bound,
                  directHeap, directTrace, directOK >>
  /\ BridgeUnchanged

NextChannels ==
  \/ CreateHandler
  \/ \E s \in 1..Len(proxies) : IsRoot(s) /\ Get(s, "f")
  \/ \E s \in 1..Len(proxies), value \in ChannelFns : Set(s, "v", value)
  \/ \E s \in 1..Len(proxies), value \in ChannelFns : Apply(s, <<value>>)
  \/ AutoReplay
  \/ SendOperationsViaPort
  \/ HandlePortMessage
SpecChannels == Init /\ [][NextChannels]_vars

\* Direct mode with automatic replay into a target whose root.f is the
\* function that throws null.
ThrowingHeap ==
  << [a |-> Obj(AObj), f |-> Obj(GObj), v |-> Undef],
     [a |-> Undef, f |-> Obj(GObj), v |-> Prim(0)],
     EmptyObject,
     EmptyObject >>
InitThrowing ==
  InitState({[port |-> FALSE, autoReplay |-> TRUE, replayContext |-> TRUE,
              onerror |-> FALSE]}, ThrowingHeap)
NextThrowing ==
  \/ \E s \in 1..Len(proxies), property \in Props : Get(s, property)
  \/ \E s \in 1..Len(proxies), property \in SetProps, value \in SrcValues :
       Set(s, property, value)
  \/ \E s \in 1..Len(proxies), args \in ArgLists : Apply(s, args)
  \/ AutoReplay
SpecThrowing == InitThrowing /\ [][NextThrowing]_vars

\* ------------------------------------------------------------ evaluate
\* evaluate() calls in one behaviour.
MaxEvaluations == 2

\* References the caller can hand to evaluate(): nothing, a plain
\* { __recordedObjectId: id } naming an identifier allocated so far, or a
\* stand-in.
NoReference == [t |-> "undef", n |-> 0]
Reference(id) == [t |-> "ref", n |-> 0, id |-> id]
References ==
  {NoReference} \cup {StandIn(k) : k \in 1..Len(proxies)}
    \cup {Reference(proxies[k].oid) : k \in {j \in 1..Len(proxies) : ~IsRoot(j)}}

\* An evaluate() whose port test is missing.
EvaluateWithoutPortTest(port, proxyRef) ==
  IF proxyRef = NoReference
  THEN [promise |-> Rejected(Pending(NoId), "Invalid proxy reference"),
        post |-> FALSE, read |-> FALSE]
  ELSE IF proxyRef.t = "standin"
  THEN [promise |-> Rejected(Pending(NoId), "DataCloneError"),
        post |-> FALSE, read |-> TRUE]
  ELSE [promise |-> Pending(proxyRef.id), post |-> TRUE, read |-> FALSE]

\* Recorder.evaluate(proxyRef): the promise it returns, whether it posts an
\* evaluate message, and whether it read proxyRef.__recordedObjectId through
\* a stand-in's get trap.  A stand-in answers that read with a new stand-in,
\* which postMessage cannot clone.
EvaluateCall(port, proxyRef) ==
  IF ~port
  THEN [promise |-> Rejected(Pending(NoId),
                             "Cannot evaluate: no MessagePort configured"),
        post |-> FALSE, read |-> FALSE]
  ELSE IF proxyRef = NoReference
  THEN [promise |-> Rejected(Pending(NoId), "Invalid proxy reference"),
        post |-> FALSE, read |-> FALSE]
  ELSE IF proxyRef.t = "standin"
  THEN [promise |-> Rejected(Pending(NoId), "DataCloneError"),
        post |-> FALSE, read |-> TRUE]
  ELSE [promise |-> Pending(proxyRef.id), post |-> TRUE, read |-> FALSE]

\* recorder.evaluate(proxyRef)
Evaluate(proxyRef) ==
  /\ Len(evaluations) < MaxEvaluations
  /\ LET call == EvaluateCall(options.port, proxyRef)
     IN /\ evaluations' = Append(evaluations, call.promise)
        /\ IF call.read
           THEN /\ steps < MaxOps
                /\ Commit(TrapGet(Cur(proxyRef.n), proxyRef.n,
                                  "__recordedObjectId"))
                /\ steps' = steps + 1
           ELSE /\ net' = IF call.post
                          THEN Append(net, EvaluateMsg(proxyRef.id,
                                                       Len(evaluations) + 1))
                          ELSE net
                /\ UNCHANGED << recordings, replayScheduled, microtasks,
                                proxies, finalizationRegistry, refLog,
                                functionChannels, pendingTransferables,
                                objectRefCounts, objectRegistry, counter,
                                steps >>
  /\ UNCHANGED << options, recordingEnabled, disposeCalled, collected, handles, disposals,
                  heap, effects, lastResults, executed, bound, real,
                  directHeap, directTrace, directOK, peerRefCounts, detached,
                  calls, invoked, served, uncaught, back, answered >>

NextEvaluate ==
  \/ \E s \in 1..Len(proxies), property \in Props : Get(s, property)
  \/ \E s \in 1..Len(proxies) : Apply(s, <<>>)
  \/ \E proxyRef \in References : Evaluate(proxyRef)
  \/ AutoReplay
  \/ SendOperationsViaPort
  \/ HandlePortMessage
SpecEvaluate == Init /\ [][NextEvaluate]_vars

\* ------------------------------------------------------------ bridge
\* Calls the peer makes on function channels in one behaviour.
MaxCalls == 2

\* The caller's functions: the first returns, the second throws an Error,
\* the third executes `throw null`.
BridgeFns == {Fn(1), Fn(2), Fn(3)}
FnThrows(fn) ==
  IF fn.n = 1 THEN "none" ELSE IF fn.n = 2 THEN "error" ELSE "null"

\* A Recorder with a port, with and without an onerror callback.
BridgeConfigs ==
  { [port |-> TRUE, autoReplay |-> TRUE, replayContext |-> FALSE,
     onerror |-> b] : b \in BOOLEAN }
InitBridge == InitState(BridgeConfigs, InitialHeap)

\* The callables replay has handed to the peer's code: written into the
\* graph or passed to one of its functions.
HeldCallables ==
  {v \in {effects[i].value : i \in 1..Len(effects)}
        \cup UNION {{effects[i].args[j] : j \in 1..Len(effects[i].args)} :
                     i \in 1..Len(effects)} : v.t = "cb"}

\* Primitive argument lists of a call.
CallArgs == {<<>>, <<Prim(1)>>, <<Prim(1), Prim(2)>>}

\* { args, callId } or { args, callId, responsePort } on a channel's port.
CallMsg(port, args, callId, responsePort) ==
  [port |-> port, args |-> args, callId |-> callId,
   responsePort |-> responsePort]

\* The function returned by _createFunctionFromChannel(channelId), called
\* with args: the messages it posts.
CreateFunctionFromChannel(registry, channelId, args, callId) ==
  LET channelInfo == MapGet(registry, channelId)
  IN IF channelInfo.t # "port" THEN <<>>
     ELSE <<CallMsg(channelInfo.n, args, callId, FALSE)>>

BridgeStepUnchanged ==
  UNCHANGED << options, recordings, recordingEnabled, replayScheduled,
               microtasks, counter, proxies, finalizationRegistry,
               disposeCalled, collected, handles, disposals, refLog, functionChannels,
               pendingTransferables, objectRefCounts, net, detached, heap,
               objectRegistry, peerRefCounts, effects, lastResults, steps,
               executed, bound, real, directHeap, directTrace, directOK,
               evaluations, back, answered >>

\* The peer's code calls a callable it was handed.
InvokeCallable(cb, args) ==
  /\ Len(invoked) < MaxCalls
  /\ cb \in HeldCallables
  /\ invoked' = Append(invoked, [channel |-> cb.n, args |-> args,
                                 callId |-> Len(invoked) + 1,
                                 callable |-> TRUE])
  /\ calls' = calls \o CreateFunctionFromChannel(objectRegistry,
                                                 ChannelId(cb.n), args,
                                                 Len(invoked) + 1)
  /\ UNCHANGED << served, uncaught >>
  /\ BridgeStepUnchanged

\* The peer's code posts a call with a response port on a channel's port
\* taken from the registry.
PostCallWithResponse(id, args) ==
  /\ Len(invoked) < MaxCalls
  /\ id \in DOMAIN objectRegistry
  /\ objectRegistry[id].t = "port"
  /\ invoked' = Append(invoked, [channel |-> id.n, args |-> args,
                                 callId |-> Len(invoked) + 1,
                                 callable |-> FALSE])
  /\ calls' = Append(calls, CallMsg(objectRegistry[id].n, args,
                                    Len(invoked) + 1, TRUE))
  /\ UNCHANGED << served, uncaught >>
  /\ BridgeStepUnchanged

\* The function whose channel has the given port2.
FnOfPort(port) ==
  CHOOSE fn \in DOMAIN functionChannels : functionChannels[fn].port2 = port

\* channel.port1.onmessage of getOrCreateFunctionChannel(fn): how the run of
\* fn ends.  In the catch block error.message is read only when a
\* responsePort came with the call, and reading it of null throws.
OnMessage(fn, data, onerror) ==
  IF FnThrows(fn) = "none"
  THEN IF data.responsePort THEN "result sent" ELSE "returned"
  ELSE IF data.responsePort
  THEN IF FnThrows(fn) = "null" THEN "uncaught" ELSE "error sent"
  ELSE IF onerror THEN "onerror" ELSE "dropped"

\* The i-th call message is delivered: it is the oldest one on its port.
DeliverCall(i) ==
  /\ i \in 1..Len(calls)
  /\ \A j \in 1..i - 1 : calls[j].port # calls[i].port
  /\ LET fn == FnOfPort(calls[i].port)
         outcome == OnMessage(fn, calls[i], options.onerror)
     IN /\ served' = Append(served, [fn |-> fn, args |-> calls[i].args,
                                     callId |-> calls[i].callId,
                                     thrown |-> FnThrows(fn),
                                     responsePort |-> calls[i].responsePort,
                                     outcome |-> outcome])
        /\ uncaught' = IF outcome = "uncaught" THEN uncaught + 1 ELSE uncaught
  /\ calls' = [k \in 1..Len(calls) - 1 |->
                IF k < i THEN calls[k] ELSE calls[k + 1]]
  /\ UNCHANGED invoked
  /\ BridgeStepUnchanged

NextBridge ==
  \/ \E s \in 1..Len(proxies) : IsRoot(s) /\ Get(s, "f")
  \/ \E s \in 1..Len(proxies), value \in BridgeFns : Set(s, "v", value)
  \/ \E s \in 1..Len(proxies), value \in BridgeFns : Apply(s, <<value>>)
  \/ \E s \in 1..Len(proxies), value \in BridgeFns : Construct(s, <<value>>)
  \/ SendOperationsViaPort
  \/ HandlePortMessage
  \/ \E cb \in HeldCallables, args \in CallArgs : InvokeCallable(cb, args)
  \/ \E id \in DOMAIN objectRegistry, args \in CallArgs :
       PostCallWithResponse(id, args)
  \/ \E i \in 1..Len(calls) : DeliverCall(i)
SpecBridge == InitBridge /\ [][NextBridge]_vars

\* ------------------------------------------------------------ messages
\* Messages in flight when one more is posted, and exceptions after which
\* none is posted.
MaxInFlight == 2
MaxUncaught == 1

\* Messages that are not what a Recorder sends: a payload that is not an
\* object, a replay message without a list of operations or with a null in
\* it, a refCount message without objectId or with a delta that is not a
\* number, and a type no branch handles.
InvalidMessages ==
  { InvalidMsg("", "not an object"),
    InvalidMsg("replay", "operations not a list"),
    InvalidMsg("replay", "null operation"),
    InvalidMsg("refCount", "no objectId"),
    InvalidMsg("refCount", "delta not a number"),
    InvalidMsg("unknown", "none") }

\* The other end of the port posts such a message.
PostInvalid(data) ==
  /\ Len(net) < MaxInFlight /\ uncaught < MaxUncaught
  /\ net' = Append(net, data)
  /\ UNCHANGED << options, recordings, recordingEnabled, replayScheduled,
                  microtasks, counter, proxies, functionChannels,
                  pendingTransferables, objectRefCounts, objectRegistry,
                  steps >>
  /\ ReplaySideUnchanged
  /\ LifecycleUnchanged

NextMessages ==
  \/ \E s \in 1..Len(proxies) : Get(s, "f")
  \/ \E s \in 1..Len(proxies) : Set(s, "v", Fn(1))
  \/ SendOperationsViaPort
  \/ HandlePortMessage
  \/ \E data \in InvalidMessages : PostInvalid(data)
SpecMessages == InitBridge /\ [][NextMessages]_vars

\* ------------------------------------------------------------ mirroring
\* The highest count the peer acquires up to.
MaxPeerCount == 2

\* The peer's Recorder calls incrementRefCount(id) (delta 1) or
\* decrementRefCount(id) (delta -1): _updateRefCount on its own table, then
\* a refCount message on its port.
PeerUpdate(id, delta) ==
  /\ Len(back) < MaxInFlight
  /\ delta = 1 => CountOf(peerRefCounts, id) < MaxPeerCount
  /\ LET u == UpdateRefCount(peerRefCounts, objectRegistry, id, delta)
     IN /\ peerRefCounts' = u.counts
        /\ objectRegistry' = u.registry
  /\ back' = Append(back, RefCountMsg(id, delta))
  /\ UNCHANGED << options, recordings, recordingEnabled, replayScheduled,
                  microtasks, counter, proxies, finalizationRegistry,
                  disposeCalled, collected, handles, disposals, refLog, functionChannels,
                  pendingTransferables, objectRefCounts, net, detached, heap,
                  effects, lastResults, steps, executed, bound, real,
                  directHeap, directTrace, directOK, calls, invoked, served,
                  evaluations, uncaught, answered >>

\* A refCount message that answers itself with another one.
ApplyReceivedMirroring(r, id, delta) ==
  IF delta > 0 THEN IncrementRefCount(r, id) ELSE DecrementRefCount(r, id)

\* The refCount branch of _handlePortMessage on the recording Recorder.
ApplyReceived(r, id, delta) == UpdateOwnRefCount(r, id, delta)

\* Recorder._handlePortMessage on the recording Recorder, for the refCount
\* messages the peer mirrors to it.
HandlePeerMessage ==
  /\ back # <<>> /\ Len(refLog) < MaxRefLog
  /\ back' = Tail(back)
  /\ Commit(ApplyReceived(Cur(1), Head(back).objectId, Head(back).delta))
  /\ UNCHANGED << options, recordingEnabled, steps, disposeCalled, collected,
                  handles, disposals, heap, effects, lastResults, executed, bound, real,
                  directHeap, directTrace, directOK, peerRefCounts, detached,
                  calls, invoked, served, evaluations, uncaught, answered >>

NextMirror ==
  \/ \E id \in RefIds : Acquire(id)
  \/ \E id \in RefIds : Release(id)
  \/ \E id \in RefIds : PeerUpdate(id, 1)
  \/ \E id \in RefIds : PeerUpdate(id, -1)
  \/ HandlePortMessage
  \/ HandlePeerMessage
SpecMirror == InitBridge /\ [][NextMirror]_vars

\* ------------------------------------------------------------ reserved
\* Reads of reserved and ordinary members, calls, and the flushes.
NextReserved ==
  \/ \E s \in 1..Len(proxies),
        property \in Props \cup DOMAIN ReservedAnswers : Get(s, property)
  \/ \E s \in 1..Len(proxies) : Apply(s, <<>>)
  \/ AutoReplay
  \/ SendOperationsViaPort
  \/ HandlePortMessage
SpecReserved == Init /\ [][NextReserved]_vars

\* ------------------------------------------------------------ claims
IsTrapRecord(op) == op.type \in {"get", "set", "apply", "construct"}

\* C1: a step in which a trap runs (a read, write, invoke or instantiate on
\* any stand-in) leaves the target graph and its log of real operations
\* unchanged; only replay steps touch the target.
TrapsLeaveTargetAlone ==
  [][steps' # steps => (heap' = heap /\ effects' = effects)]_vars
\* Every operation allowed was performed, nothing was flushed or replayed,
\* and the target is untouched.
RecordedWithoutEffect ==
  /\ steps = MaxOps /\ Len(recordings) = MaxOps
  /\ lastResults.calls = 0 /\ effects = <<>> /\ heap = InitialHeap

\* C2: whenever the direct execution of the recorded operations runs to
\* completion, replay has performed exactly the real operations of the direct
\* execution: same kind, target object, receiver and arguments, same order.
RoundTrip == directOK => effects = directTrace

\* C3: replay executes records in the order they were recorded, within a
\* batch and across batches.
ReplayInRecordedOrder ==
  \A i, j \in 1..Len(executed) :
    i < j => executed[i].op.no < executed[j].op.no
\* Two records of different batches were executed on the peer.
TwoBatchesExecutedOnPeer ==
  /\ options.port /\ Len(executed) >= 2
  /\ executed[1].batch # executed[Len(executed)].batch

\* C4: a record whose targetId was bound to a real object when an earlier
\* batch was replayed acts on that object.
StandInKeepsItsObject ==
  \A i \in 1..Len(executed) : \A b \in bound :
    (b.id = executed[i].op.target /\ b.batch < executed[i].batch
       /\ b.value.t = "obj")
      => executed[i].obj = b.value

\* C5: every record of an operation on the root stand-in targets the root
\* identifier, and every record of an operation on a derived stand-in targets
\* the resultId of the record that produced the stand-in, so a chain of
\* reads is a chain of targetIds; each record follows its producer.
ProducerOf(k) ==
  {i \in 1..Len(recordings) : recordings[i].src.res = k}
ChainOfTargets ==
  \A j \in 1..Len(recordings) :
    IsTrapRecord(recordings[j]) =>
      IF IsRoot(recordings[j].src.s)
      THEN recordings[j].target = RootId
      ELSE /\ recordings[j].target = proxies[recordings[j].src.s].targetId
           /\ \A i \in ProducerOf(recordings[j].src.s) :
                i < j /\ recordings[j].target = recordings[i].resultId
Chained ==
  /\ []ChainOfTargets
  /\ [][steps' # steps => /\ Len(recordings') = Len(recordings) + 1
                          /\ SubSeq(recordings', 1, Len(recordings)) = recordings]_vars
\* root.a.f.v style chain: three get records, each targeting its predecessor.
ThreeChainedReads ==
  /\ Len(recordings) = 3
  /\ \A i \in 1..3 : recordings[i].type = "get"
  /\ recordings[1].target = RootId
  /\ recordings[2].target = recordings[1].resultId
  /\ recordings[3].target = recordings[2].resultId

\* C6: a derived stand-in passed as an argument of an invoke or instantiate
\* is serialized as the reference marker of its identifier, and replay passes
\* the value that was bound under that identifier.
ReferencePassing ==
  \A e \in 1..Len(executed) :
    (executed[e].op.type \in {"apply", "construct"}
       /\ IsCallable(executed[e].obj, executed[e].op.type = "construct")) =>
      \A i \in 1..Len(executed[e].op.args) :
        LET arg == executed[e].op.src.args[i]
        IN (arg.t = "standin" /\ ~IsRoot(arg.n)) =>
             /\ executed[e].op.args[i] = RefMarker(proxies[arg.n].targetId)
             /\ \A b \in bound :
                  b.id = proxies[arg.n].targetId => executed[e].args[i] = b.value

\* C7: a set whose value is a stand-in records the reference marker of the
\* stand-in's identifier, a function value records a channel marker, a stream
\* records a transfer marker.
WriteMarkers ==
  \A j \in 1..Len(recordings) :
    recordings[j].type = "set" =>
      LET value == recordings[j].src.value
      IN /\ value.t = "standin"
              => recordings[j].value = RefMarker(proxies[value.n].oid)
         /\ value.t = "fn" => recordings[j].value.m = "channel"
         /\ value.t = "streamarg" => recordings[j].value = TransferMarker

\* C8: a replay of n records returns n result entries and no exception
\* escapes the call.
ResultPerRecord ==
  /\ ~lastResults.escaped
  /\ Len(lastResults.results) = Len(lastResults.ops)

\* C9: replaying root.read(p).write(q, x) where root has no member p gives
\* an error entry for the write and leaves the read's result as it was.
IsReadThenWrite(ops) ==
  /\ Len(ops) = 2
  /\ ops[1].type = "get" /\ ops[1].target = RootId
  /\ ops[2].type = "set" /\ ops[2].target = ops[1].resultId
  /\ ops[2].value.m = "lit"
WriteOnMissingMemberFails ==
  (/\ lastResults.by = "replay"
   /\ IsReadThenWrite(lastResults.ops)
   /\ Len(lastResults.results) = 2
   /\ lastResults.results[1] = Undef)
    => lastResults.results[2] = ErrorEntry

\* C10: a manual replay leaves the log empty, and a manual replay of an empty
\* log performs no real operation and returns an empty result list.
ManualReplayConsumesLog ==
  [][lastResults'.manual # lastResults.manual =>
       /\ recordings' = <<>>
       /\ recordings = <<>> =>
            (effects' = effects /\ heap' = heap /\ lastResults'.results = <<>>)]_vars
\* A second manual replay, of an empty log, after one that acted on the target.
SecondReplayOfEmptyLog ==
  /\ lastResults.manual = 2 /\ lastResults.ops = <<>>
  /\ effects # <<>> /\ recordings = <<>>

\* C11: no record is delivered to a replay engine more than once: the records
\* still in the log, those in replay messages on the port and those already
\* executed are pairwise distinct, whatever the interleaving of appends,
\* flushes, manual replay and clear.
RECURSIVE InFlight(_)
InFlight(msgs) ==
  IF msgs = <<>> THEN <<>>
  ELSE Nos(Head(msgs).operations) \o InFlight(Tail(msgs))
EverywhereNos ==
  Nos(recordings) \o InFlight(net) \o [i \in 1..Len(executed) |-> executed[i].op.no]
DeliveredAtMostOnce ==
  Cardinality(Range(EverywhereNos)) = Len(EverywhereNos)
\* One record executed on the peer, one in a message on the port, one still in
\* the log.
OneExecutedOneInFlightOneLogged ==
  /\ options.port /\ Len(executed) = 1 /\ Len(recordings) = 1
  /\ InFlight(net) # <<>>

\* C12: at most one flush is pending at any time, and the flush that ends a
\* turn delivers every record appended during the turn, that is the whole
\* log, as one batch in append order: one replay message posted on the port
\* in cross-context mode, one local replay in direct mode.
FlushDelivers ==
  IF options.port
  THEN net' = Append(net, ReplayMsg(recordings, pendingTransferables))
  ELSE /\ lastResults'.calls = lastResults.calls + 1
       /\ lastResults'.ops = recordings
OneFlushOneBatch ==
  /\ [](microtasks <= 1 /\ (replayScheduled <=> microtasks = 1))
  /\ [][microtasks' < microtasks /\ recordings # <<>> => FlushDelivers]_vars

\* C13: in direct mode with automatic replay and a replay context, a step in
\* which a trap records an operation executes nothing, and the step in which
\* the scheduled flush runs executes every record of the log.
DirectAuto == ~options.port /\ options.autoReplay /\ options.replayContext
ExecutedBy(op, before, after) ==
  \E e \in Len(before) + 1..Len(after) : after[e].op = op
ExecutedAtFlush ==
  [][DirectAuto =>
       /\ steps' > steps => executed' = executed
       /\ microtasks' < microtasks =>
            \A i \in 1..Len(recordings) :
              ExecutedBy(recordings[i], executed, executed')]_vars

\* C14: while recording is paused a trapped operation leaves the log as it
\* is, and while recording is enabled (at the start or after resume) each
\* trapped operation appends exactly one record after those already logged.
PausedKeepsLogResumedAppends ==
  [][steps' > steps =>
       IF recordingEnabled
       THEN /\ Len(recordings') = Len(recordings) + 1
            /\ SubSeq(recordings', 1, Len(recordings)) = recordings
            /\ recordings'[Len(recordings')].no = steps'
       ELSE recordings' = recordings]_vars

\* Two operations were trapped, the first one while paused: after resume
\* the log holds the second one only, and nothing was flushed or replayed.
SecondOperationLoggedAfterResume ==
  /\ recordingEnabled /\ steps = 2 /\ Nos(recordings) = <<2>>
  /\ lastResults.calls = 0 /\ net = <<>>

\* C15: for every identifier, whenever its latest _updateRefCount calls are
\* n acquires followed by n releases (incrementRefCount / decrementRefCount,
\* also through a RecordedObjectHandle's constructor and dispose), the count
\* is back at the value it had before the first of them; the table always
\* holds the count the last call left; and a call that brings a count to
\* zero leaves the identifier in neither the count table nor the registry.
IdLog(id) == SelectSeq(refLog, LAMBDA e : e.id = id)
Deltas(log) == [i \in 1..Len(log) |-> log[i].delta]
Balanced(log, n) ==
  /\ 2 * n <= Len(log)
  /\ \A i \in 1..n : /\ log[Len(log) - 2 * n + i].delta = 1
                     /\ log[Len(log) - n + i].delta = -1
LoggedIds == {refLog[i].id : i \in 1..Len(refLog)}
BalancedReturnsToBase ==
  \A id \in LoggedIds :
    LET log == IdLog(id)
    IN /\ CountOf(objectRefCounts, id) = log[Len(log)].after
       /\ \A n \in 1..Len(log) :
            Balanced(log, n) =>
              log[Len(log)].after = log[Len(log) - 2 * n + 1].before
ZeroMeansAbsent ==
  (Len(refLog') > Len(refLog) /\ refLog'[Len(refLog')].after = 0) =>
    LET id == refLog'[Len(refLog')].id
    IN /\ id \notin DOMAIN objectRefCounts'
       /\ ~options.port => id \notin DOMAIN objectRegistry'
AcquireReleaseBalance ==
  [](BalancedReturnsToBase) /\ [][ZeroMeansAbsent]_vars

\* Two acquires of 'globalThis', one of them the constructor of a
\* RecordedObjectHandle, then two releases: the identifier is gone again.
TwoAcquiredTwoReleased ==
  /\ Deltas(refLog) = <<1, 1, -1, -1>> /\ LoggedIds = {RootId}
  /\ handles # <<>> /\ objectRefCounts = EmptyMap

\* C16: every count stored in the Reference Count Table of either context
\* is a positive integer, so an absent entry is the only form of zero; and a
\* release of an identifier whose count is zero, made locally or received as
\* a refCount message with delta -1, leaves the identifier absent.
Positive(counts) == \A id \in DOMAIN counts : counts[id] \in Nat \ {0}
ReleaseAtZeroLocal ==
  (/\ Len(refLog') > Len(refLog)
   /\ refLog'[Len(refLog')].delta = -1
   /\ refLog'[Len(refLog')].before = 0) =>
    refLog'[Len(refLog')].id \notin DOMAIN objectRefCounts'
ReleaseAtZeroPeer ==
  (/\ Len(net') < Len(net)
   /\ Head(net).type = "refCount" /\ Head(net).delta = -1
   /\ Head(net).objectId \notin DOMAIN peerRefCounts) =>
    Head(net).objectId \notin DOMAIN peerRefCounts'
CountsNeverNegative ==
  /\ [](Positive(objectRefCounts) /\ Positive(peerRefCounts))
  /\ [][ReleaseAtZeroLocal /\ ReleaseAtZeroPeer]_vars

\* An identifier was released at count zero and acquired afterwards, and the
\* peer has received both messages: both contexts hold a count of one.
AcquiredAfterReleaseAtZero ==
  /\ options.port /\ net = <<>>
  /\ Deltas(refLog) = <<-1, 1>> /\ refLog[1].id = refLog[2].id
  /\ refLog[1].before = 0 /\ refLog[1].after = 0
  /\ CountOf(objectRefCounts, refLog[1].id) = 1
  /\ CountOf(peerRefCounts, refLog[1].id) = 1

\* C17: when the holder runs the disposal protocol on a stand-in (reads its
\* Symbol.dispose member and calls what it gets), the count of the
\* stand-in's identifier goes down by exactly one in that step and, with a
\* port, a refCount message with delta -1 for that identifier is posted.
DisposalRan == steps' = steps + 2
Disposed == proxies'[proxies'[Len(proxies')].parent].parent
DisposalReleases ==
  [][DisposalRan =>
       LET id == proxies[Disposed].oid
       IN /\ CountOf(objectRefCounts', id) = CountOf(objectRefCounts, id) - 1
          /\ options.port =>
               \E i \in Len(net) + 1..Len(net') :
                 net'[i] = RefCountMsg(id, -1)]_vars

\* C18: for every stand-in, its dispose function and its finalization
\* together make at most one _updateRefCount call: a finalization of a
\* stand-in whose dispose function has run changes no count and posts no
\* message, and a finalization of one whose dispose function has not run
\* lowers the count of its identifier by exactly one while that count is
\* positive.
ReleasesBy(s) == {i \in 1..Len(refLog) : refLog[i].by = s}
AtMostOneRelease ==
  \A s \in 1..Len(proxies) : Cardinality(ReleasesBy(s)) <= 1
FinalizationOnce ==
  \A s \in collected' \ collected :
    LET id == proxies[s].oid
    IN IF s \in disposeCalled
       THEN /\ objectRefCounts' = objectRefCounts
            /\ net' = net /\ refLog' = refLog
       ELSE CountOf(objectRefCounts, id) > 0 =>
              /\ CountOf(objectRefCounts', id) = CountOf(objectRefCounts, id) - 1
              /\ Len(refLog') = Len(refLog) + 1
              /\ refLog'[Len(refLog')].by = s
DisposalAndFinalizationOnce ==
  [](AtMostOneRelease) /\ [][FinalizationOnce]_vars

\* A stand-in whose dispose function ran was collected afterwards while
\* another acquire keeps the count of its identifier at one.
FinalizedAfterDisposeFunction ==
  \E s \in collected \cap disposeCalled :
    /\ CountOf(objectRefCounts, proxies[s].oid) = 1
    /\ Cardinality(ReleasesBy(s)) = 1

\* C19: every change of a local count is mirrored to the peer with the same
\* delta: with a port, once every posted message has been delivered the
\* peer's count of every identifier equals the local count.
MirroredCounts ==
  (options.port /\ net = <<>>) =>
    \A id \in DOMAIN objectRefCounts \cup DOMAIN peerRefCounts :
      CountOf(peerRefCounts, id) = CountOf(objectRefCounts, id)

\* C20: within one Recorder a function value keeps the channel it was given
\* on first use, every record that writes or passes it carries that
\* channel's identifier, and two distinct function values never have the
\* same channel identifier.
UsesOf(op) ==
  IF op.type = "set" /\ op.src.value.t = "fn"
  THEN {[fn |-> op.src.value, marker |-> op.value]}
  ELSE {[fn |-> op.src.args[i], marker |-> op.args[i]] :
          i \in {j \in 1..Len(op.src.args) : op.src.args[j].t = "fn"}}
SameFunctionSameChannel ==
  \A i \in 1..Len(recordings) : \A u \in UsesOf(recordings[i]) :
    /\ u.fn \in DOMAIN functionChannels
    /\ u.marker = ChannelMarker(ChannelId(ChannelOf(functionChannels, u.fn)))
DistinctFunctionsDistinctChannels ==
  \A f, g \in DOMAIN functionChannels :
    f # g => ChannelOf(functionChannels, f) # ChannelOf(functionChannels, g)
ChannelKept ==
  \A f \in DOMAIN functionChannels :
    f \in DOMAIN functionChannels' /\ functionChannels'[f] = functionChannels[f]
OneChannelPerFunction ==
  /\ [](SameFunctionSameChannel /\ DistinctFunctionsDistinctChannels)
  /\ [][ChannelKept]_vars

\* C23: when a scheduled flush has run in cross-context mode the
\* pending-transfer set is empty, and what was queued before the flush went
\* out as the transfer list of the replay message that flush posted.
FlushRan == options.port /\ microtasks' < microtasks
FlushHandsOverTransferables ==
  [][FlushRan =>
       /\ pendingTransferables' = <<>>
       /\ pendingTransferables # <<>> =>
            /\ Len(net') = Len(net) + 1
            /\ net'[Len(net')].transfer = pendingTransferables]_vars

\* C27: in every batch handed to a replay engine, each targetId, each
\* receiverId and each reference-marker id of a record is the root
\* identifier or the resultId of an earlier record of that batch.
MarkerIds(op) ==
  {op.args[i].id : i \in {j \in 1..Len(op.args) : op.args[j].m = "ref"}}
    \cup (IF op.value.m = "ref" THEN {op.value.id} ELSE {})
IdsUsed(op) == ({op.target, op.receiver} \cup MarkerIds(op)) \ {NoId}
ProducedBefore(ops, i) == {RootId} \cup {ops[j].resultId : j \in 1..i - 1}
BatchIsClosed ==
  \A i \in 1..Len(lastResults.ops) :
    IdsUsed(lastResults.ops[i]) \subseteq ProducedBefore(lastResults.ops, i)

\* C28: every resultId and channel identifier allocated for one Recorder is
\* distinct from every other identifier allocated for it and from the root
\* identifier, whichever root handler of the Recorder the operations go
\* through: no two stand-ins produced by records share an identifier, no two
\* functions share a channel number, and no identifier is the root's.
Produced == {k \in 1..Len(proxies) : ~IsRoot(k)}
AllocatedIdsDistinct ==
  /\ \A j, k \in Produced : j # k => proxies[j].oid # proxies[k].oid
  /\ \A k \in Produced : proxies[k].oid # RootId
  /\ DistinctFunctionsDistinctChannels

\* C29: when a record of any of the four kinds is replayed, its targetId
\* resolves to the value bound to that identifier in the Reference Map of
\* the batch whenever there is one, whatever the value, and to the root
\* object exactly when there is none.
BindingsOf(id, batch) == {b \in bound : b.id = id /\ b.batch = batch}
TargetResolvesToBinding ==
  \A e \in 1..Len(executed) :
    IsTrapRecord(executed[e].op) =>
      LET bs == BindingsOf(executed[e].op.target, executed[e].batch)
      IN IF bs = {} THEN executed[e].obj = Obj(ContextObj)
         ELSE \E b \in bs : executed[e].obj = b.value

\* C30: when the peer has handled a replay message, each callback marker of
\* the batch, in a written value or in the arguments of an invoke or an
\* instantiate, is paired in the peer's registry with the port2 of the
\* MessageChannel of the function value that produced the marker.
MarkersPairedWith(ops, registry) ==
  \A i \in 1..Len(ops) : \A u \in UsesOf(ops[i]) :
    /\ u.fn \in DOMAIN functionChannels
    /\ MapGet(registry, u.marker.id) = PortOf(functionChannels[u.fn].port2)
MarkersPairedWithTheirPorts ==
  [][(Len(net') < Len(net) /\ Head(net).type = "replay") =>
       MarkersPairedWith(Head(net).operations, objectRegistry')]_vars

\* C25: on a Recorder without a port, every evaluate() call rejects with the
\* precondition error, posts no message, and leaves the log, the registry and
\* the reference counts as they were.
EvaluateRan == Len(evaluations') = Len(evaluations) + 1
EvaluateWithoutPortFails ==
  [][(EvaluateRan /\ ~options.port) =>
       /\ evaluations'[Len(evaluations')].state = "rejected"
       /\ evaluations'[Len(evaluations')].error =
            "Cannot evaluate: no MessagePort configured"
       /\ UNCHANGED << net, recordings, objectRegistry, objectRefCounts,
                       peerRefCounts >>]_vars
EvaluatedWithoutPort ==
  /\ ~options.port
  /\ recordings # <<>>
  /\ Len(proxies) > 1
  /\ evaluations # <<>>
  /\ evaluations[Len(evaluations)].state = "rejected"

\* C26: when the peer handles an evaluate request, the record that produces
\* the requested identifier has been replayed, and the promise resolves with
\* the value bound under that identifier.
EvaluateHandled ==
  net # <<>> /\ Len(net') < Len(net) /\ Head(net).type = "evaluate"
EvaluateSeesReplayedObject ==
  [][EvaluateHandled =>
       /\ \E i \in 1..Len(executed) :
            executed[i].op.resultId = Head(net).objectId
       /\ \A b \in bound :
            b.id = Head(net).objectId =>
              /\ evaluations'[Head(net).responsePort].state = "resolved"
              /\ evaluations'[Head(net).responsePort].value = b.value]_vars

\* C21: every call the peer makes of a callable built from a channel marker
\* is executed at most once, by the function the marker was made for and
\* with the call's arguments, exactly once when its message has been
\* delivered, and the calls of one callable are executed in the order made.
OriginalOf(channel) ==
  {fn \in DOMAIN functionChannels : functionChannels[fn].channelId = channel}
RunsOf(callId) == {k \in 1..Len(served) : served[k].callId = callId}
CallablesRunTheirFunctionOnceInOrder ==
  /\ \A i \in 1..Len(invoked) :
       invoked[i].callable =>
         /\ Cardinality(RunsOf(invoked[i].callId)) <= 1
         /\ calls = <<>> => Cardinality(RunsOf(invoked[i].callId)) = 1
         /\ \A k \in RunsOf(invoked[i].callId) :
              /\ OriginalOf(invoked[i].channel) = {served[k].fn}
              /\ served[k].args = invoked[i].args
  /\ \A i, j \in 1..Len(invoked) :
       (i < j /\ invoked[i].callable /\ invoked[j].callable
          /\ invoked[i].channel = invoked[j].channel)
         => \A k \in RunsOf(invoked[i].callId), l \in RunsOf(invoked[j].callId) :
              k < l

\* C22: a run of a bridged function that throws ends inside the message
\* handler: with an error message when the call carried a response port,
\* otherwise with the onerror callback when one is configured; no exception
\* leaves the handler, and every delivered call is served.
ThrowsAreCaughtInTheHandler ==
  /\ uncaught = 0
  /\ \A k \in 1..Len(served) :
       served[k].thrown # "none" =>
         /\ served[k].responsePort => served[k].outcome = "error sent"
         /\ (~served[k].responsePort /\ options.onerror)
              => served[k].outcome = "onerror"
  /\ Len(served) + Len(calls)
       = Cardinality({i \in 1..Len(invoked) :
                        invoked[i].callable =>
                          MapGet(objectRegistry,
                                 ChannelId(invoked[i].channel)).t = "port"})

\* C24: handling a message never throws; a message of an unknown type or
\* with an invalid structure changes nothing of the receiving Recorder, and
\* the messages behind it stay queued for the handler.
MessageHandled == net # <<>> /\ Len(net') < Len(net)
Recognized(data) ==
  Invalid(data) = "none" /\ data.type \in {"replay", "refCount", "evaluate"}
InvalidMessagesAreDropped ==
  [][MessageHandled =>
       /\ uncaught' = uncaught
       /\ net' = Tail(net)
       /\ ~Recognized(Head(net)) =>
            UNCHANGED << objectRegistry, peerRefCounts, heap, effects,
                         executed, bound, lastResults, evaluations >>]_vars

\* C31: every replayed record that carries a transfer marker, as its value or
\* as an argument, resolves the marker to a stream, the resource that came
\* with the batch.
TransferMarkersResolveToResource ==
  \A i \in 1..Len(executed) : options.port =>
    /\ executed[i].op.value.m = "transfer" => executed[i].value.t = "stream"
    /\ \A j \in 1..Len(executed[i].op.args) :
         (executed[i].op.args[j].m = "transfer" /\ j <= Len(executed[i].args))
           => executed[i].args[j].t = "stream"

\* C32: in cross-context mode, once the log is flushed and every message is
\* handled, each record appended so far has been executed on the peer
\* exactly once.
Drained ==
  options.port /\ recordings = <<>> /\ microtasks = 0 /\ net = <<>>
ExecutionsOf(no) == {e \in 1..Len(executed) : executed[e].op.no = no}
EveryRecordReplayedOnce ==
  Drained => \A no \in 1..steps : Cardinality(ExecutionsOf(no)) = 1

\* C33: with a port, when the log is flushed and every message is handled,
\* the peer's registry has no entry for the identifier of a stand-in whose
\* count was released back to zero (no stand-in having been reclaimed by the
\* garbage collector).
ReleasedIds ==
  {proxies[k].oid : k \in {j \in 1..Len(proxies) : ~IsRoot(j)}}
    \ DOMAIN objectRefCounts
ReleasedEntriesLeaveThePeer ==
  (Drained /\ collected = {}) =>
    \A id \in ReleasedIds : id \notin DOMAIN objectRegistry

\* C34: with a port, once every message of both directions has been
\* delivered, the two contexts hold the same count for every identifier.
BothDelivered == options.port /\ net = <<>> /\ back = <<>>
ConcurrentCountsConverge ==
  BothDelivered =>
    \A id \in DOMAIN objectRefCounts \cup DOMAIN peerRefCounts :
      CountOf(objectRefCounts, id) = CountOf(peerRefCounts, id)

\* C39: handling a refCount message, in either context, applies its delta to
\* the receiver's table (an absent count read as 0, a result of zero or less
\* stored as absent) and posts nothing; every acquire or release posts exactly
\* one message.
Clamped(n) == IF n > 0 THEN n ELSE 0
PeerHandlesRefCount ==
  net # <<>> /\ Len(net') < Len(net) /\ Head(net).type = "refCount"
OriginHandlesRefCount == back # <<>> /\ Len(back') < Len(back)
ReceivedDeltaAppliedSilently ==
  [][/\ PeerHandlesRefCount =>
          /\ back' = back /\ net' = Tail(net)
          /\ CountOf(peerRefCounts', Head(net).objectId)
               = Clamped(CountOf(peerRefCounts, Head(net).objectId)
                           + Head(net).delta)
     /\ OriginHandlesRefCount =>
          /\ net' = net /\ back' = Tail(back)
          /\ CountOf(objectRefCounts', Head(back).objectId)
               = Clamped(CountOf(objectRefCounts, Head(back).objectId)
                           + Head(back).delta)
     /\ (~PeerHandlesRefCount /\ ~OriginHandlesRefCount) =>
          Len(net') + Len(back') = Len(net) + Len(back) + 1]_vars
\* Both contexts have received a refCount message from the other and no
\* message is left.
BothReceivedOne ==
  /\ BothDelivered
  /\ Deltas(refLog) = <<1, -1>> /\ refLog[1].id = refLog[2].id
  /\ refLog[2].after = 0
  /\ CountOf(peerRefCounts, refLog[1].id) = 1

\* C35: a read of 'then', Symbol.iterator or Symbol.toStringTag on a stand-in
\* returns undefined, undefined and 'RecorderProxy', and changes nothing of
\* the Recorder: log, identifiers, stand-ins, reference counts, scheduled
\* flushes and posted messages stay as they were.
ReservedRead == Len(answered') = Len(answered) + 1
ReservedReadsAnswerFixedValues ==
  [][ReservedRead =>
       /\ LET a == answered'[Len(answered')]
          IN /\ a.property \in {"then", "Symbol.iterator"} => a.value = Undef
             /\ a.property = "Symbol.toStringTag"
                  => a.value = [t |-> "RecorderProxy", n |-> 0]
       /\ UNCHANGED << recordings, counter, proxies, objectRefCounts, refLog,
                       finalizationRegistry, replayScheduled, microtasks,
                       net, functionChannels, pendingTransferables >>]_vars
\* Each reserved member has been read after ordinary operations were
\* recorded.
ReservedReadAfterRecording ==
  /\ Len(answered) = 2 /\ answered[1].property # answered[2].property
  /\ answered[2].property = "Symbol.toStringTag"
  /\ Len(proxies) > 2

\* C36: calling the dispose method of one handle (a stand-in's dispose
\* function or a RecordedObjectHandle's Symbol.dispose) any number of times
\* lowers the count of its identifier once in total: the dispose function of
\* a stand-in makes at most one release, and a call of a
\* RecordedObjectHandle's dispose method after the first changes no count
\* and posts no message.
HandleDisposedAgain ==
  \E k \in 1..Len(disposals) :
    disposals[k] >= 1 /\ disposals'[k] = disposals[k] + 1
DisposeLowersOnce ==
  /\ [](AtMostOneRelease)
  /\ [][HandleDisposedAgain =>
          objectRefCounts' = objectRefCounts /\ net' = net]_vars

\* C37: when the holder runs the disposal protocol on a stand-in (reads its
\* Symbol.dispose member and calls what it gets), no record is appended to
\* the Operation Log, no stand-in or identifier is created, the handler's
\* counter stays as it was and no flush is scheduled.
DisposalRecordsNothing ==
  [][DisposalRan =>
       /\ recordings' = recordings
       /\ proxies' = proxies /\ counter' = counter
       /\ replayScheduled' = replayScheduled
       /\ microtasks' = microtasks]_vars

\* C38: while recording is paused, an operation on a stand-in (a read, a
\* write of a literal or a function, a call) leaves the log, the pending
\* transferables, the Reference Count Table and the function channels as
\* they were and posts no message.
PausedOperation == ~recordingEnabled /\ steps' = steps + 1
PausedOperationsChangeNothing ==
  [][PausedOperation =>
       /\ recordings' = recordings
       /\ pendingTransferables' = pendingTransferables
       /\ objectRefCounts' = objectRefCounts
       /\ functionChannels' = functionChannels
       /\ net' = net]_vars

====
